---- MODULE Spec2Model ----
(***************************************************************************)
(* A model of src/src/ecdo_analysis/data_loaders.py: load_lod_data,        *)
(* load_aam_data and load_combined_data.                                   *)
(*                                                                         *)
(* One behaviour of the model is one call of one of the three functions.   *)
(* The call's arguments (the content of the LOD file, the content of the   *)
(* AAM directory, start_year, end_year, resample_freq) are fixed by Init;  *)
(* the actions are the steps of the call in program order.                 *)
(*                                                                         *)
(* Representation                                                          *)
(*   Optional[int] and a possibly missing cell (NaN): <<>> is None / NaN,  *)
(*     <<v>> is the value v.                                               *)
(*   a timestamp: the integer ToDatetime(Year, Month, Day, hour), which    *)
(*     orders timestamps as the calendar does.                             *)
(*   a table (DataFrame): the sequence of its rows in index order; a row   *)
(*     is a record whose field "datetime" is the index entry.              *)
(*   an aggregated cell (a mean): [sum |-> s, n |-> k], the mean s / k of  *)
(*     the k defined values of the period; n = 0 is the missing mean (NaN) *)
(*     of a period without defined values.  Floating-point rounding is     *)
(*     not modelled: values are integers.                                  *)
(*   an AAM file name: the digits of the <YEAR> token that the glob        *)
(*     pattern's * matches, e.g. <<1, 9, 9, 9>>.                           *)
(***************************************************************************)
EXTENDS Integers, Sequences, FiniteSets, TLC

VARIABLES
    fn,             \* the function called
    lod_file,       \* argument: what file_path / lod_file names on disk
    aam_dir,        \* argument: the files the glob pattern matches in data_dir
    start_year,     \* argument (Optional[int])
    end_year,       \* argument (Optional[int])
    resample_freq,  \* argument
    pc,             \* position in the call
    calls,          \* the loaders invoked so far, in order
    reads,          \* the AAM files pd.read_csv was called on so far, in order
    aam_files,      \* load_aam_data's local aam_files
    dfs,            \* load_aam_data's local dfs
    df_all,         \* load_aam_data's local df_all
    df_lod,         \* load_combined_data's local df_lod
    df_aam,         \* load_combined_data's local df_aam
    result,         \* the returned table (meaningful when pc = "returned")
    err             \* the exception raised (meaningful when pc = "raised")

vars == <<fn, lod_file, aam_dir, start_year, end_year, resample_freq, pc, calls,
          reads, aam_files, dfs, df_all, df_lod, df_aam, result, err>>

args == <<fn, lod_file, aam_dir, start_year, end_year, resample_freq>>

(***************************************************************************)
(* Optional values                                                         *)
(***************************************************************************)
None == <<>>

Some(v) == <<v>>

IsNone(o) == Len(o) = 0

\* NaN + x = NaN (line 137), NaN * x = NaN (line 53)
OptAdd(a, b) == IF IsNone(a) \/ IsNone(b) THEN None ELSE Some(a[1] + b[1])

OptMul(a, k) == IF IsNone(a) THEN None ELSE Some(a[1] * k)

(***************************************************************************)
(* Sequences                                                               *)
(***************************************************************************)
RECURSIVE SeqSum(_)
SeqSum(s) == IF s = <<>> THEN 0 ELSE s[1] + SeqSum(Tail(s))

RECURSIVE Flatten(_)
Flatten(ss) == IF ss = <<>> THEN <<>> ELSE ss[1] \o Flatten(Tail(ss))

Range(s) == {s[k] : k \in 1..Len(s)}

\* the sequences over S of length lo..hi
SeqsOf(S, lo, hi) == UNION {[1..n -> S] : n \in lo..hi}

(***************************************************************************)
(* Timestamps and resampling periods                                       *)
(***************************************************************************)
\* pd.to_datetime of a row's Year, Month, Day (and Time): the timestamp as an
\* integer that grows with the calendar (12 months of 31 day slots of 24 hours)
ToDatetime(y, m, d, h) == ((y * 12 + (m - 1)) * 31 + (d - 1)) * 24 + h

\* the length of one period of the resampling grid: "MS" month start,
\* "YS" year start
PeriodLen(freq) == IF freq = "MS" THEN 31 * 24 ELSE 12 * 31 * 24

\* the period a timestamp falls in, and the period's label (its start)
PeriodOf(ts, freq) == ts \div PeriodLen(freq)

PeriodStart(p, freq) == p * PeriodLen(freq)

(***************************************************************************)
(* Tables                                                                  *)
(***************************************************************************)
Index(df) == [k \in 1..Len(df) |-> df[k].datetime]

Column(df, c) == [k \in 1..Len(df) |-> df[k][c]]

\* DataFrame.sort_index: ascending by index entry; rows with equal entries keep
\* their relative order here (no later step depends on the order of ties)
RECURSIVE InsertRow(_, _)
InsertRow(sorted, r) ==
    IF sorted = <<>> THEN <<r>>
    ELSE IF r.datetime < sorted[1].datetime THEN <<r>> \o sorted
    ELSE <<sorted[1]>> \o InsertRow(Tail(sorted), r)

RECURSIVE SortFrom(_, _)
SortFrom(acc, rest) ==
    IF rest = <<>> THEN acc ELSE SortFrom(InsertRow(acc, rest[1]), Tail(rest))

SortIndex(df) == SortFrom(<<>>, df)

\* Series.mean() of one period: NaN cells are skipped; no defined cell gives NaN
Mean(cells) ==
    LET defined == SelectSeq(cells, LAMBDA v : ~IsNone(v))
    IN  [sum |-> SeqSum([k \in 1..Len(defined) |-> defined[k][1]]),
         n   |-> Len(defined)]

\* the rows of df whose timestamp falls in period p
Bin(df, p, freq) == SelectSeq(df, LAMBDA r : PeriodOf(r.datetime, freq) = p)

\* one row of a resampled table: the period's label and each column's mean
PeriodRow(df, cols, p, freq) ==
    [c \in cols \cup {"datetime"} |->
        IF c = "datetime" THEN PeriodStart(p, freq)
        ELSE Mean(Column(Bin(df, p, freq), c))]

\* Resample changed to bin the rows in the order their periods first appear
\* (a groupby on the period without sorting)
RECURSIVE PeriodsSeen(_, _, _)
PeriodsSeen(df, freq, seen) ==
    IF df = <<>> THEN seen
    ELSE LET p == PeriodOf(df[1].datetime, freq)
         IN  PeriodsSeen(Tail(df), freq,
                         IF p \in Range(seen) THEN seen ELSE Append(seen, p))

ResampleUnsorted(df, cols, freq) ==
    LET ps == PeriodsSeen(df, freq, <<>>)
    IN  [k \in 1..Len(ps) |-> PeriodRow(df, cols, ps[k], freq)]

\* Resample changed to leave out the periods no row falls in (a dropna())
ResampleDropEmpty(df, cols, freq) ==
    IF df = <<>> THEN <<>>
    ELSE LET ordered == SortIndex(df)
             first   == PeriodOf(ordered[1].datetime, freq)
             last    == PeriodOf(ordered[Len(ordered)].datetime, freq)
             all     == [k \in 1..(last - first + 1) |->
                            PeriodRow(ordered, cols, first + k - 1, freq)]
         IN  SelectSeq(all, LAMBDA r : \E c \in cols : r[c].n > 0)

\* df[cols].resample(freq).mean(): the rows are binned by period whatever their
\* order; the result has one row for every period from the earliest to the
\* latest timestamp's, in ascending order
Resample(df, cols, freq) ==
    IF df = <<>> THEN <<>>
    ELSE LET ordered == SortIndex(df)
             first   == PeriodOf(ordered[1].datetime, freq)
             last    == PeriodOf(ordered[Len(ordered)].datetime, freq)
         IN  [k \in 1..(last - first + 1) |->
                 PeriodRow(ordered, cols, first + k - 1, freq)]

\* InnerJoin changed to how='left': every row of left, right's columns missing
\* where right has no such index entry
LeftJoin(left, right) ==
    LET Match(l) == {r \in Range(right) : r.datetime = l.datetime}
        missing  == [Mass_Z   |-> [sum |-> 0, n |-> 0],
                     Motion_Z |-> [sum |-> 0, n |-> 0],
                     X3_atm   |-> [sum |-> 0, n |-> 0]]
    IN  [k \in 1..Len(left) |->
            left[k] @@ (IF Match(left[k]) = {} THEN missing
                        ELSE CHOOSE r \in Match(left[k]) : TRUE)]

\* left.join(right, how='inner') on indexes without duplicates: the rows of
\* left whose index entry is in right's index, with right's columns added
InnerJoin(left, right) ==
    LET Match(l) == {r \in Range(right) : r.datetime = l.datetime}
        kept     == SelectSeq(left, LAMBDA l : Match(l) # {})
    IN  [k \in 1..Len(kept) |-> kept[k] @@ (CHOOSE r \in Match(kept[k]) : TRUE)]

(***************************************************************************)
(* load_lod_data, lines 36-58                                              *)
(***************************************************************************)
\* lines 49-53: the datetime index and the derived column LOD_ms
LodFrame(rows) ==
    [k \in 1..Len(rows) |->
        [datetime |-> ToDatetime(rows[k].Year, rows[k].Month, rows[k].Day, 0),
         LOD      |-> rows[k].LOD,
         LOD_ms   |-> OptMul(rows[k].LOD, 1000)]]

\* lines 49-58 for a file that pd.read_csv parsed into rows
LoadLodTable(rows, freq) == Resample(LodFrame(rows), {"LOD_ms", "LOD"}, freq)

\* what pd.read_csv raises at line 36 for a file it cannot open or parse
LodReadError(file) ==
    IF file.status = "missing" THEN "FileNotFoundError" ELSE "ParserError"

(***************************************************************************)
(* load_aam_data, lines 92-142                                             *)
(***************************************************************************)
\* line 105: int(f.stem.split('_')[-1].split('.')[0]) of a file name
RECURSIVE ParseInt(_)
ParseInt(digits) ==
    IF digits = <<>> THEN 0
    ELSE 10 * ParseInt(SubSeq(digits, 1, Len(digits) - 1)) + digits[Len(digits)]

FileYear(name) == ParseInt(name)

\* the order sorted() puts two paths of one directory in: lexicographic
RECURSIVE LexLess(_, _)
LexLess(a, b) ==
    IF a = <<>> THEN b # <<>>
    ELSE IF b = <<>> THEN FALSE
    ELSE IF a[1] # b[1] THEN a[1] < b[1]
    ELSE LexLess(Tail(a), Tail(b))

\* line 95: sorted(data_path.glob(...)), the matching names in ascending order
RECURSIVE SortedNames(_)
SortedNames(names) ==
    IF names = {} THEN <<>>
    ELSE LET least == CHOOSE a \in names : \A b \in names \ {a} : LexLess(a, b)
         IN  <<least>> \o SortedNames(names \ {least})

Glob(dir) == SortedNames({f.name : f \in dir})

\* KeepsYear changed to an exclusive upper bound
KeepsYearExclusive(year, lo, hi) ==
    /\ ~(~IsNone(lo) /\ year < lo[1])
    /\ ~(~IsNone(hi) /\ year >= hi[1])

\* lines 106-110: whether the filter keeps a file of this year
KeepsYear(year, lo, hi) ==
    /\ ~(~IsNone(lo) /\ year < lo[1])
    /\ ~(~IsNone(hi) /\ year > hi[1])

\* FilterFiles changed to apply the upper bound only
FilterFilesNoLower(files, lo, hi) ==
    IF ~IsNone(lo) \/ ~IsNone(hi)
    THEN SelectSeq(files, LAMBDA f : KeepsYear(FileYear(f), None, hi))
    ELSE files

\* lines 101-111
FilterFiles(files, lo, hi) ==
    IF ~IsNone(lo) \/ ~IsNone(hi)
    THEN SelectSeq(files, LAMBDA f : KeepsYear(FileYear(f), lo, hi))
    ELSE files

FileNamed(dir, name) == CHOOSE f \in dir : f.name = name

\* what pd.read_csv / pd.to_datetime raise at lines 119-127 for a file that
\* cannot be read or parsed
AamReadError(file) ==
    IF file.status = "unreadable" THEN "PermissionError" ELSE "ParserError"

\* lines 119-129: one file's rows with their datetime index
AamFrame(rows) ==
    [k \in 1..Len(rows) |->
        [datetime |-> ToDatetime(rows[k].Year, rows[k].Month, rows[k].Day,
                                 rows[k].Time),
         Year     |-> rows[k].Year,
         Mass_Z   |-> rows[k].Mass_Z,
         Motion_Z |-> rows[k].Motion_Z]]

\* WithX3 changed to add Mass_Z twice
WithX3Wrong(df) ==
    [k \in 1..Len(df) |->
        df[k] @@ [X3_atm |-> OptAdd(df[k].Mass_Z, df[k].Mass_Z)]]

\* line 137: the derived column X3_atm
WithX3(df) ==
    [k \in 1..Len(df) |->
        df[k] @@ [X3_atm |-> OptAdd(df[k].Mass_Z, df[k].Motion_Z)]]

\* ConcatSorted without line 134's sort_index
ConcatUnsorted(frames) == WithX3(Flatten(frames))

\* lines 133-137
ConcatSorted(frames) == WithX3(SortIndex(Flatten(frames)))

\* line 140
AamMonthly(df, freq) == Resample(df, {"Mass_Z", "Motion_Z", "X3_atm"}, freq)

(***************************************************************************)
(* load_combined_data, lines 173-180                                       *)
(***************************************************************************)
\* CombinedLodTable changed to apply the year bounds to the LOD rows too
CombinedLodTableFiltered(file, lo, hi, freq) ==
    LoadLodTable(SelectSeq(file.rows, LAMBDA r : KeepsYear(r.Year, lo, hi)),
                 freq)

\* line 174: the LOD table load_combined_data builds from its arguments
CombinedLodTable(file, lo, hi, freq) == LoadLodTable(file.rows, freq)

\* line 175: the resample_freq load_combined_data hands to load_aam_data
CombinedAamFreq(freq) == freq

(***************************************************************************)
(* The calls the model explores                                            *)
(***************************************************************************)
MaxAamRows == 2

MaxLodRows == 2

Freqs == {"MS", "YS"}

FileNames == {<<1, 9, 9, 9>>, <<2, 0, 0, 0>>, <<2, 0, 0, 1>>}

OptYears == {None} \cup {Some(y) : y \in 1999..2001}

NoFile == [status |-> "missing", rows |-> <<>>]

File(name, status, rows) == [name |-> name, status |-> status, rows |-> rows]

Call(f, lod, dir, lo, hi, freq) ==
    [fn |-> f, lod_file |-> lod, aam_dir |-> dir, start_year |-> lo,
     end_year |-> hi, resample_freq |-> freq]

\* the call c is made
Start(c) ==
    /\ fn = c.fn
    /\ lod_file = c.lod_file
    /\ aam_dir = c.aam_dir
    /\ start_year = c.start_year
    /\ end_year = c.end_year
    /\ resample_freq = c.resample_freq

\* a row of a well-formed yearly file and of a well-formed LOD file
PlainAamRow(year) ==
    [Year |-> year, Month |-> 1, Day |-> 1, Time |-> 0,
     Mass_Z |-> Some(1), Motion_Z |-> Some(2)]

PlainLodRow == [Year |-> 2000, Month |-> 1, Day |-> 1, LOD |-> Some(10)]

\* Directory layouts: every choice of which yearly files exist and which of
\* them can be read, with every year range; the files' rows are plain.
LayoutDirs ==
    {{File(n, m[n], IF m[n] = "ok" THEN <<PlainAamRow(FileYear(n))>> ELSE <<>>) :
          n \in {x \in FileNames : m[x] # "absent"}} :
       m \in [FileNames -> {"absent", "ok", "unreadable", "malformed"}]}

LayoutCalls ==
    \/ \E d \in LayoutDirs, lo \in OptYears, hi \in OptYears :
          Start(Call("load_aam_data", NoFile, d, lo, hi, "MS"))
    \/ \E st \in {"ok", "missing", "malformed"}, d \in LayoutDirs,
          lo \in OptYears, hi \in OptYears :
          Start(Call("load_combined_data",
                     [status |-> st, rows |-> <<PlainLodRow>>], d, lo, hi, "MS"))

\* the directories whose files 1999 and 2000 hold rows of R1999 and R2000, at
\* least one row and at most MaxAamRows in all (a file exists when it holds a
\* row)
DirOf(a, b) ==
    (IF a = <<>> THEN {} ELSE {File(<<1, 9, 9, 9>>, "ok", a)})
    \cup (IF b = <<>> THEN {} ELSE {File(<<2, 0, 0, 0>>, "ok", b)})

SmallDirs(R1999, R2000) ==
    UNION {{DirOf(a, b) : b \in SeqsOf(R2000, 0, MaxAamRows - Len(a))} :
              a \in SeqsOf(R1999, 0, MaxAamRows)} \ {{}}

\* Row timestamps: rows of any year, month and time of day in either file
\* (out of order, repeated, in the other year's file), with one year or none
\* selected.
TimedRows ==
    {[Year |-> y, Month |-> m, Day |-> 1, Time |-> t,
      Mass_Z |-> Some(1), Motion_Z |-> Some(2)] :
        y \in {1999, 2000}, m \in {1, 3}, t \in {0, 3}}

AamRowCalls ==
    \E d \in SmallDirs(TimedRows, TimedRows),
       yy \in {None, Some(1999), Some(2000)}, f \in Freqs :
       Start(Call("load_aam_data", NoFile, d, yy, yy, f))

\* Row order: one file of one row more, so that one file can hold rows out of
\* order and a repeated timestamp at once.
OrderRows == {r \in TimedRows : r.Year = 1999}

AamOrderCalls ==
    \E rows \in SeqsOf(OrderRows, MaxAamRows + 1, MaxAamRows + 1), f \in Freqs :
       Start(Call("load_aam_data", NoFile, {File(<<1, 9, 9, 9>>, "ok", rows)},
                  None, None, f))

\* Row values: one file whose cells are defined or missing.
ValueRows ==
    {[Year |-> 1999, Month |-> s[1], Day |-> 1, Time |-> s[2],
      Mass_Z |-> a, Motion_Z |-> b] :
        s \in {<<1, 0>>, <<1, 3>>, <<3, 0>>},
        a \in {None, Some(1), Some(3)}, b \in {None, Some(2)}}

AamValueCalls ==
    \E rows \in SeqsOf(ValueRows, 1, MaxAamRows), f \in Freqs :
       Start(Call("load_aam_data", NoFile, {File(<<1, 9, 9, 9>>, "ok", rows)},
                  None, None, f))

\* LOD files
LodRows ==
    {[Year |-> y, Month |-> m, Day |-> d, LOD |-> Some(v)] :
        y \in {1999, 2000}, m \in {1, 3}, d \in {1, 2}, v \in {8, 12}}

LodCalls ==
    \/ \E st \in {"missing", "malformed"}, f \in Freqs :
          Start(Call("load_lod_data", [status |-> st, rows |-> <<PlainLodRow>>],
                     {}, None, None, f))
    \/ \E rows \in SeqsOf(LodRows, 1, MaxLodRows), f \in Freqs :
          Start(Call("load_lod_data", [status |-> "ok", rows |-> rows],
                     {}, None, None, f))

\* Both sources: LOD rows and yearly files of any months, with a lower and an
\* upper year bound or none.
JoinLodRows ==
    {[Year |-> y, Month |-> m, Day |-> 1, LOD |-> Some(10)] :
        y \in {1999, 2000}, m \in {1, 3}}

JoinAamRows(year) ==
    {[Year |-> year, Month |-> m, Day |-> 1, Time |-> 0,
      Mass_Z |-> Some(1), Motion_Z |-> Some(2)] : m \in {1, 3}}

CombinedCalls ==
    \E rows \in SeqsOf(JoinLodRows, 1, MaxLodRows),
       d \in SmallDirs(JoinAamRows(1999), JoinAamRows(2000)),
       lo \in {None, Some(2000)}, hi \in {None, Some(1999)}, f \in Freqs :
       Start(Call("load_combined_data", [status |-> "ok", rows |-> rows],
                  d, lo, hi, f))

(***************************************************************************)
(* The state machine                                                       *)
(***************************************************************************)
Init ==
    /\ \/ LayoutCalls
       \/ AamRowCalls
       \/ AamOrderCalls
       \/ AamValueCalls
       \/ LodCalls
       \/ CombinedCalls
    /\ pc = IF fn = "load_aam_data" THEN "discover" ELSE "read_lod"
    /\ calls = <<>>
    /\ reads = <<>>
    /\ aam_files = <<>>
    /\ dfs = <<>>
    /\ df_all = <<>>
    /\ df_lod = <<>>
    /\ df_aam = <<>>
    /\ result = <<>>
    /\ err = "none"

Raise(e) ==
    /\ pc' = "raised"
    /\ err' = e
    /\ result' = result

\* load_lod_data (lines 36-58), called directly or from line 174
ReadLod ==
    /\ pc = "read_lod"
    /\ calls' = Append(calls, "load_lod_data")
    /\ IF lod_file.status # "ok"
       THEN /\ Raise(LodReadError(lod_file))
            /\ df_lod' = df_lod
       ELSE IF fn = "load_lod_data"
       THEN /\ df_lod' = LoadLodTable(lod_file.rows, resample_freq)
            /\ result' = df_lod'
            /\ pc' = "returned"
            /\ err' = err
       ELSE /\ df_lod' = CombinedLodTable(lod_file, start_year, end_year,
                                          resample_freq)
            /\ pc' = "discover"
            /\ UNCHANGED <<result, err>>
    /\ UNCHANGED <<args, reads, aam_files, dfs, df_all, df_aam>>

\* load_aam_data, lines 92-98: the glob and its check
Discover ==
    /\ pc = "discover"
    /\ calls' = Append(calls, "load_aam_data")
    /\ aam_files' = Glob(aam_dir)
    /\ IF aam_files' = <<>>
       THEN Raise("FileNotFoundError")
       ELSE /\ pc' = "filter"
            /\ UNCHANGED <<result, err>>
    /\ UNCHANGED <<args, reads, dfs, df_all, df_lod, df_aam>>

\* load_aam_data, lines 100-114: the year filter and its check
FilterByYear ==
    /\ pc = "filter"
    /\ aam_files' = FilterFiles(aam_files, start_year, end_year)
    /\ IF aam_files' = <<>>
       THEN Raise("ValueError")
       ELSE /\ pc' = "read_aam"
            /\ UNCHANGED <<result, err>>
    /\ UNCHANGED <<args, calls, reads, dfs, df_all, df_lod, df_aam>>

\* ReadAam changed to skip a file that cannot be read and go on
ReadAamSkipFailed ==
    /\ pc = "read_aam"
    /\ Len(dfs) < Len(aam_files)
    /\ LET file == FileNamed(aam_dir, aam_files[Len(dfs) + 1])
       IN  /\ reads' = Append(reads, file.name)
           /\ dfs' = Append(dfs, IF file.status # "ok" THEN <<>>
                                 ELSE AamFrame(file.rows))
           /\ UNCHANGED <<pc, result, err>>
    /\ UNCHANGED <<args, calls, aam_files, df_all, df_lod, df_aam>>

\* load_aam_data, lines 118-130: one turn of the loop over aam_files
ReadAam ==
    /\ pc = "read_aam"
    /\ Len(dfs) < Len(aam_files)
    /\ LET file == FileNamed(aam_dir, aam_files[Len(dfs) + 1])
       IN  /\ reads' = Append(reads, file.name)
           /\ IF file.status # "ok"
              THEN /\ Raise(AamReadError(file))
                   /\ dfs' = dfs
              ELSE /\ dfs' = Append(dfs, AamFrame(file.rows))
                   /\ UNCHANGED <<pc, result, err>>
    /\ UNCHANGED <<args, calls, aam_files, df_all, df_lod, df_aam>>

\* load_aam_data, lines 132-142: concatenate, sort, derive, resample, return
ConcatResample ==
    /\ pc = "read_aam"
    /\ Len(dfs) = Len(aam_files)
    /\ df_all' = ConcatSorted(dfs)
    /\ df_aam' = AamMonthly(df_all',
                            IF fn = "load_aam_data" THEN resample_freq
                            ELSE CombinedAamFreq(resample_freq))
    /\ IF fn = "load_aam_data"
       THEN /\ result' = df_aam'
            /\ pc' = "returned"
       ELSE /\ result' = result
            /\ pc' = "join"
    /\ UNCHANGED <<args, calls, reads, aam_files, dfs, df_lod, err>>

\* load_combined_data, lines 177-180
Join ==
    /\ pc = "join"
    /\ result' = InnerJoin(df_lod, df_aam)
    /\ pc' = "returned"
    /\ UNCHANGED <<args, calls, reads, aam_files, dfs, df_all, df_lod, df_aam,
                   err>>

Next == ReadLod \/ Discover \/ FilterByYear \/ ReadAam \/ ConcatResample \/ Join

Spec == Init /\ [][Next]_vars

(***************************************************************************)
(* Properties                                                              *)
(***************************************************************************)
Returned == pc = "returned"

Raised == pc = "raised"

\* load_aam_data has run past its year filter (lines 100-114)
PastFilter ==
    /\ "load_aam_data" \in Range(calls)
    /\ pc \in {"read_aam", "join", "returned"}
          \/ (Raised /\ err \in {"PermissionError", "ParserError"})

\* load_aam_data has built df_all and its monthly table (lines 132-142)
AamDone == fn # "load_lod_data" /\ pc \in {"join", "returned"}

\* load_lod_data has built its table
LodDone ==
    /\ "load_lod_data" \in Range(calls)
    /\ ~(Raised /\ calls = <<"load_lod_data">>)

IndexSet(df) == Range(Index(df))

StrictlyAscending(idx) == \A k \in 1..(Len(idx) - 1) : idx[k] < idx[k + 1]

Count(seq, x) == Cardinality({k \in 1..Len(seq) : seq[k] = x})

SameBag(s, t) ==
    /\ Len(s) = Len(t)
    /\ \A x \in Range(s) \cup Range(t) : Count(s, x) = Count(t, x)

InYearRange(y) ==
    /\ IsNone(start_year) \/ y >= start_year[1]
    /\ IsNone(end_year) \/ y <= end_year[1]

\* the raw rows load_aam_data read, in the order it read them
RawAam == Flatten(dfs)

\* df_all without the derived column
RawOf(df) ==
    [k \in 1..Len(df) |->
        [c \in (DOMAIN df[k]) \ {"X3_atm"} |-> df[k][c]]]

----------------------------------------------------------------------------
(* C1: the combined table's index is the intersection of the LOD table's   *)
(* and the AAM table's indexes, without repeats, and the combined table    *)
(* has at most as many rows as either.                                     *)
C1_JoinIntersection ==
    (fn = "load_combined_data" /\ Returned) =>
        /\ IndexSet(result) = IndexSet(df_lod) \cap IndexSet(df_aam)
        /\ Len(result) = Cardinality(IndexSet(result))
        /\ Len(result) <= Len(df_lod)
        /\ Len(result) <= Len(df_aam)

\* a join that keeps a period and drops one of each side
C1_Witness ==
    /\ fn = "load_combined_data" /\ Returned
    /\ result # <<>>
    /\ IndexSet(df_lod) \ IndexSet(df_aam) # {}
    /\ IndexSet(df_aam) \ IndexSet(df_lod) # {}

----------------------------------------------------------------------------
(* C2: past the year filter, aam_files holds exactly the discovered files  *)
(* whose filename year is within the given bounds (inclusive; an omitted   *)
(* bound is open), in ascending order of year, and a call that returns has *)
(* read exactly these files in that order.                                 *)
C2_YearFilter ==
    PastFilter =>
        /\ Range(aam_files) =
              {f.name : f \in {g \in aam_dir : InYearRange(FileYear(g.name))}}
        /\ \A j, k \in 1..Len(aam_files) :
              j < k => FileYear(aam_files[j]) < FileYear(aam_files[k])
        /\ (Returned => reads = aam_files)

\* one year selected among three files: the files on both sides are dropped
C2_Witness ==
    /\ Returned
    /\ Cardinality(aam_dir) = 3
    /\ start_year = Some(2000) /\ end_year = Some(2000)
    /\ reads = <<(<<2, 0, 0, 0>>)>>

----------------------------------------------------------------------------
(* C3: whenever load_aam_data is left with no file, because the glob       *)
(* matched none or because the year filter dropped them all, it raises the *)
(* same not-found error (FileNotFoundError, line 98), reads no file and    *)
(* returns no table.                                                       *)
C3_SameNotFoundError ==
    ( /\ "load_aam_data" \in Range(calls)
      /\ pc # "filter"
      /\ FilterFiles(Glob(aam_dir), start_year, end_year) = <<>> )
    => (Raised /\ err = "FileNotFoundError" /\ reads = <<>>)

\* C3, what the code does: the two cases end in different errors; in both no
\* file is read and no table is returned.
C3_TwoErrorKinds ==
    ( /\ "load_aam_data" \in Range(calls)
      /\ pc # "filter"
      /\ FilterFiles(Glob(aam_dir), start_year, end_year) = <<>> )
    => /\ Raised /\ reads = <<>> /\ result = <<>>
       /\ err = IF Glob(aam_dir) = <<>> THEN "FileNotFoundError"
                ELSE "ValueError"

----------------------------------------------------------------------------
(* C4: the index of every table a call returns, and of the LOD and AAM     *)
(* tables inside load_combined_data, is strictly ascending, whatever the   *)
(* order of the raw rows and however often a timestamp repeats.            *)
C4_MonotonicIndex ==
    /\ StrictlyAscending(Index(df_lod))
    /\ StrictlyAscending(Index(df_aam))
    /\ Returned => StrictlyAscending(Index(result))

\* raw rows read out of order, a timestamp read twice, and a table of several
\* periods
C4_Witness ==
    /\ Returned /\ fn = "load_aam_data"
    /\ Len(result) >= 2
    /\ \E j, k \in 1..Len(RawAam) :
          j < k /\ RawAam[j].datetime > RawAam[k].datetime
    /\ \E j, k \in 1..Len(RawAam) :
          j < k /\ RawAam[j].datetime = RawAam[k].datetime

----------------------------------------------------------------------------
(* C5 as stated: with start_year = end_year = Y every row that contributes *)
(* to the returned table has Year = Y.                                     *)
C5_OnlyRowsOfYear ==
    (fn = "load_aam_data" /\ Returned /\ ~IsNone(start_year)
        /\ start_year = end_year)
    => \A r \in Range(df_all) : r.Year = start_year[1]

(* C5 amended: with start_year = end_year = Y the rows that contribute are *)
(* exactly the rows of the files whose filename year is Y, whatever their  *)
(* Year field; they all have Year = Y when these files hold no row of      *)
(* another year.                                                           *)
C5_OnlyRowsOfFilesOfYear ==
    (fn = "load_aam_data" /\ Returned /\ ~IsNone(start_year)
        /\ start_year = end_year)
    => LET Y      == start_year[1]
           chosen == {f \in aam_dir : FileYear(f.name) = Y}
           rowsOf == Flatten([k \in 1..Len(Glob(chosen)) |->
                        AamFrame(FileNamed(chosen, Glob(chosen)[k]).rows)])
       IN  /\ SameBag(RawOf(df_all), rowsOf)
           /\ (\A f \in chosen : \A r \in Range(f.rows) : r.Year = Y)
                 => \A r \in Range(df_all) : r.Year = Y

\* the selected year's file holds a row of the other year, which contributes
C5_Witness ==
    /\ fn = "load_aam_data" /\ Returned
    /\ start_year = Some(2000) /\ end_year = Some(2000)
    /\ Cardinality(aam_dir) = 2
    /\ \E r \in Range(df_all) : r.Year = 1999

----------------------------------------------------------------------------
(* C6: a table load_lod_data or load_aam_data built has exactly one row    *)
(* for every period from the first to the last period that has raw rows,   *)
(* and in the row of a period without raw rows every column is missing     *)
(* (n = 0), which differs from the mean zero.                              *)
GapLaw(table, raw, cols, freq) ==
    raw # <<>> =>
        LET has == {PeriodOf(raw[k].datetime, freq) : k \in 1..Len(raw)}
            lo  == CHOOSE p \in has : \A q \in has : p <= q
            hi  == CHOOSE p \in has : \A q \in has : q <= p
        IN  /\ Len(table) = hi - lo + 1
            /\ \A p \in lo..hi :
                  Cardinality({k \in 1..Len(table) :
                      table[k].datetime = PeriodStart(p, freq)}) = 1
            /\ \A k \in 1..Len(table) :
                  PeriodOf(table[k].datetime, freq) \notin has
                      => \A c \in cols : table[k][c].n = 0

C6_MissingPeriods ==
    /\ LodDone =>
          GapLaw(df_lod, LodFrame(lod_file.rows), {"LOD_ms", "LOD"},
                 resample_freq)
    /\ AamDone =>
          GapLaw(df_aam, df_all, {"Mass_Z", "Motion_Z", "X3_atm"},
                 resample_freq)

\* a returned table with a period no raw row falls in
C6_Witness ==
    /\ Returned /\ fn = "load_aam_data"
    /\ \E k \in 1..Len(result) :
          /\ 1 < k /\ k < Len(result)
          /\ \A r \in Range(df_all) :
                PeriodOf(r.datetime, resample_freq)
                    # PeriodOf(result[k].datetime, resample_freq)
          /\ result[k].X3_atm.n = 0

----------------------------------------------------------------------------
(* C7: df_all holds the rows of the files read, each as often as it was    *)
(* read, in ascending order of timestamp: no row of a later year stands    *)
(* before a row of an earlier year.                                        *)
C7_ConcatSorted ==
    AamDone =>
        /\ \A j, k \in 1..Len(df_all) :
              j < k => /\ df_all[j].datetime <= df_all[k].datetime
                       /\ df_all[j].Year <= df_all[k].Year
        /\ SameBag(RawOf(df_all), RawAam)

\* the 1999 file holds a row later than a row of the 2000 file
C7_Witness ==
    /\ AamDone
    /\ Len(dfs) = 2
    /\ \E a \in Range(dfs[1]), b \in Range(dfs[2]) : a.datetime > b.datetime
    /\ df_all[1].Year = 1999 /\ df_all[Len(df_all)].Year = 2000

----------------------------------------------------------------------------
(* C8: inside load_combined_data the LOD table is the one load_lod_data    *)
(* builds from the whole file at resample_freq, whatever start_year and    *)
(* end_year are, and the AAM table is resampled at the same resample_freq; *)
(* the combined index is that unfiltered LOD index cut with the AAM index. *)
C8_LodIgnoresYears ==
    /\ (fn = "load_combined_data" /\ LodDone) =>
          df_lod = LoadLodTable(lod_file.rows, resample_freq)
    /\ (fn = "load_combined_data" /\ AamDone) =>
          df_aam = AamMonthly(df_all, resample_freq)
    /\ (fn = "load_combined_data" /\ Returned) =>
          IndexSet(result) =
              IndexSet(LoadLodTable(lod_file.rows, resample_freq))
                  \cap IndexSet(df_aam)

\* a year range is given and the LOD table keeps a period outside it
C8_Witness ==
    /\ fn = "load_combined_data" /\ Returned
    /\ start_year = Some(2000)
    /\ resample_freq = "YS"
    /\ \E r \in Range(lod_file.rows) : r.Year = 1999
    /\ \E r \in Range(df_lod) : r.datetime = ToDatetime(1999, 1, 1, 0)

----------------------------------------------------------------------------
(* C9: a failed read ends the call with the read's error and no table.     *)
(* The AAM files are read one at a time in the order of aam_files; a file  *)
(* that cannot be read is the last one read.  When the LOD loader fails    *)
(* inside load_combined_data, load_aam_data is never invoked.              *)
C9_FailureAborts ==
    /\ Raised => result = <<>>
    /\ Len(reads) <= Len(aam_files) /\ reads = SubSeq(aam_files, 1, Len(reads))
    /\ \A k \in 1..Len(reads) :
          LET file == FileNamed(aam_dir, reads[k])
          IN  file.status # "ok" =>
                 /\ k = Len(reads)
                 /\ Raised /\ err = AamReadError(file)
    /\ ("load_lod_data" \in Range(calls) /\ lod_file.status # "ok") =>
          /\ Raised /\ err = LodReadError(lod_file)
          /\ calls = <<"load_lod_data">> /\ reads = <<>>
    /\ Returned =>
          /\ fn # "load_aam_data" => lod_file.status = "ok"
          /\ \A f \in Range(aam_files) : FileNamed(aam_dir, f).status = "ok"

\* the second of three files cannot be read: the third never is
C9_Witness ==
    /\ Raised /\ err = "PermissionError"
    /\ Len(aam_files) = 3
    /\ Len(reads) = 2
    /\ Len(dfs) = 1

----------------------------------------------------------------------------
(* C10: in a period of the AAM table all of whose raw rows have Mass_Z and *)
(* Motion_Z defined, the three means are taken over the same number of     *)
(* rows and the sum behind X3_atm's mean is the sum behind Mass_Z's plus   *)
(* the sum behind Motion_Z's.                                              *)
C10_X3MeanIsSumOfMeans ==
    AamDone =>
        \A k \in 1..Len(df_aam) :
            LET rows == Bin(df_all,
                            PeriodOf(df_aam[k].datetime, resample_freq),
                            resample_freq)
            IN  (\A r \in Range(rows) :
                     ~IsNone(r.Mass_Z) /\ ~IsNone(r.Motion_Z))
                => /\ df_aam[k].X3_atm.n = Len(rows)
                   /\ df_aam[k].Mass_Z.n = Len(rows)
                   /\ df_aam[k].Motion_Z.n = Len(rows)
                   /\ df_aam[k].X3_atm.sum =
                         df_aam[k].Mass_Z.sum + df_aam[k].Motion_Z.sum

\* a period of two fully defined rows with different Mass_Z
C10_Witness ==
    /\ AamDone
    /\ \E k \in 1..Len(df_aam) :
          /\ df_aam[k].X3_atm.n = 2
          /\ df_aam[k].Mass_Z.n = 2
          /\ df_aam[k].Motion_Z.n = 2
          /\ df_aam[k].Mass_Z.sum = 4

\* C10, the case left open: no table has a period in which Mass_Z, Motion_Z
\* and X3_atm all have a mean and X3_atm's differs from the sum of the other
\* two.  (This fails: a period with a row that lacks one component.)
C10_EqualEvenWithMissing ==
    AamDone =>
        \A k \in 1..Len(df_aam) :
            LET m == df_aam[k].Mass_Z
                w == df_aam[k].Motion_Z
                x == df_aam[k].X3_atm
            IN  (m.n > 0 /\ w.n > 0 /\ x.n > 0) =>
                    x.sum * m.n * w.n = (m.sum * w.n + w.sum * m.n) * x.n

====
